---- MODULE Spec2Model ----
(***************************************************************************)
(* Model of the ETL pipeline of src/docker: the orchestrator               *)
(* run_etl_pipeline (src/docker/src/etl_pipeline.py), the sink             *)
(* DatabaseConnection (src/docker/src/utils/database.py), the record       *)
(* source and transformer DataProcessor                                    *)
(* (src/docker/src/utils/data_processor.py) and the stand-alone entry      *)
(* points (etl_pipeline.py __main__, scheduled_etl.py main).               *)
(*                                                                         *)
(* The store (PostgreSQL behind psycopg2) and the file system are the      *)
(* environment: every call into them either succeeds or fails, chosen      *)
(* nondeterministically.                                                   *)
(***************************************************************************)
EXTENDS Integers, Sequences, FiniteSets, TLC

\* ---------------------------------------------------------------- bounds
\* Largest number of rows the input file holds.
MaxRecords == 3
\* Largest number of pieces in a product name given to categorize_product.
MaxFragments == 3
\* Largest number of connect() / close() calls made on one DatabaseConnection.
MaxCalls == 4
\* The scheduler service starts at second StartTime of the hour and is
\* followed until second MaxTime; it serves at most MaxRequests requests.
StartTime == 298
MaxTime == 670
MaxRequests == 2
\* The completion of a manually triggered run is remembered for MaxRecall
\* seconds.
MaxRecall == 2

\* ------------------------------------------------------ program constants
\* ETL_SETTINGS['max_retries'], ETL_SETTINGS['retry_delay']
max_retries == 5
retry_delay == 2

\* scheduler_server.py: time.sleep(1) between two checks of the clock; the
\* firing window `minute % 5 == 0 and second < 5`; the tolerance
\* `(now - last_run).seconds > 240`; timedelta.seconds is the difference
\* modulo one day.
PollSeconds == 1
WindowEveryMinutes == 5
WindowSeconds == 5
SkipTolerance == 240
SecondsPerDay == 86400

\* How long a pipeline subprocess started by the timer can take, in seconds.
RunDurations == { 0, 3, 64, 310 }

\* Rows an input file can hold (date omitted: it is only copied through).
\* A product name is a sequence of characters.
Laptop == << "L", "a", "p", "t", "o", "p" >>
Mouse  == << "M", "o", "u", "s", "e" >>
Widget == << "W", "i", "d", "g", "e", "t" >>

RawRows ==
    { [product |-> Laptop, amount |-> 1000, quantity |-> 2],
      [product |-> Mouse,  amount |-> 20,   quantity |-> 5],
      [product |-> Widget, amount |-> 10,   quantity |-> 1] }

\* Pieces that product names given to categorize_product are put together
\* from: "Lap" + "top" holds a keyword that neither piece holds.
Fragments ==
    { << "L", "a", "p" >>,
      << "t", "o", "p" >>,
      << "M", "O", "U", "S", "E" >>,
      << "P", "r", "i", "n", "t", "e", "r" >>,
      Widget }

RECURSIVE SeqsUpTo(_, _)
SeqsUpTo(S, n) ==
    IF n = 0 THEN { <<>> }
    ELSE LET shorter == SeqsUpTo(S, n - 1)
         IN  shorter \cup { Append(s, x) : s \in { t \in shorter : Len(t) = n - 1 }, x \in S }

\* The states the input file can be in.
SourceKinds == { "ok", "missing", "empty", "missing_columns", "unreadable" }

VARIABLES
    entry,              \* which script was started: "etl_pipeline" | "scheduled_etl"
    pc,                 \* position of the run inside run_etl_pipeline / main
    sourceKind,         \* state of the input file
    sourceRows,         \* rows of the input file
    raw_data,           \* run_etl_pipeline: raw_data
    extraction_success, \* run_etl_pipeline: extraction_success
    extract_error,      \* message logged by extract_data on failure
    db_records,         \* run_etl_pipeline: db_records
    processed_data,     \* run_etl_pipeline: processed_data
    connection,         \* DatabaseConnection.connection: "None" | "conn"
    attempt,            \* DatabaseConnection.connect: loop variable
    attempts,           \* number of psycopg2.connect calls made
    sleeps,             \* number of time.sleep(retry_delay) calls made
    waited,             \* seconds slept in connect
    allOpErr,           \* every attempt so far raised OperationalError
    connection_success, \* run_etl_pipeline: connection_success
    table_success,      \* run_etl_pipeline: table_success
    inserted_count,     \* run_etl_pipeline: inserted_count (-1: not set)
    connLive,           \* store: the connection opened by this run is live
    tableExists,        \* store: the sales table exists
    committed,          \* store: rows committed to the sales table
    pending,            \* store: rows inserted in the open transaction
    commits,            \* store: commits issued by insert_sales_data
    rollbacks,          \* store: rollbacks that took effect
    files,              \* file system: files written by save_to_file
    report,             \* run_etl_pipeline: report ("unset" | "empty" | record)
    result,             \* value returned by the try/except block
    outcome,            \* what the caller of run_etl_pipeline observes
    exitCode,           \* exit code of the process (-1: still running)
    sinkOps,            \* sink operations of the run, in order
    fault,              \* which external failures happened in the run
    errorLogged,        \* run_etl_pipeline wrote an entry with logger.error
    \* One DatabaseConnection object driven by any sequence of calls.
    hconn,              \* DatabaseConnection.connection: 0 is None, else the
                        \* number of the psycopg2 connection it refers to
    hOpened,            \* store: connections opened so far (numbered from 1)
    hLive,              \* store: connections that are open and unreleased
    hCalls,             \* connect() and close() calls made on the object
    hLast,              \* what the last call did
    \* The scheduler service (scheduler_server.py).
    now,                \* wall clock, in seconds
    timerPc,            \* scheduled_task: "poll" | "running"
    nextCheck,          \* scheduled_task: when time.sleep(1) returns
    last_run,           \* start_cron_scheduler: last_run (-1 is None)
    timerProcs,         \* pipeline subprocesses started by the timer, running
    timerStart,         \* when the timer last started a subprocess (-1: never)
    timerLast,          \* how the timer's last launch ended
    manualRunning,      \* run_etl_background threads that are running
    manualEnd,          \* when a run_etl_background thread last ended (-1:
                        \* never, or more than MaxRecall seconds ago)
    requests,           \* HTTP requests served
    lastResp,           \* the last HTTP response, and what it was sent amid
    \* One call of categorize_product (data_processor.py).
    cProduct,           \* the product name given
    cResult             \* the category returned ("unset" before the call)

runVars == << entry, pc, sourceKind, sourceRows, raw_data, extraction_success,
              extract_error, db_records, processed_data, connection, attempt,
              attempts, sleeps, waited, allOpErr, connection_success,
              table_success, inserted_count, connLive, tableExists, committed,
              pending, commits, rollbacks, files, report, result, outcome,
              exitCode, sinkOps, fault, errorLogged >>

handleVars == << hconn, hOpened, hLive, hCalls, hLast >>

schedVars == << now, timerPc, nextCheck, last_run, timerProcs, timerStart,
                timerLast, manualRunning, manualEnd, requests, lastResp >>

catVars == << cProduct, cResult >>

\* Everything outside the pipeline run.
notRun == << handleVars, schedVars, catVars >>

vars == << runVars, notRun >>

sourceVars  == << sourceKind, sourceRows >>
extractVars == << raw_data, extraction_success, extract_error >>
transVars   == << db_records, processed_data >>
connectVars == << connection, attempt, attempts, sleeps, waited, allOpErr,
                  connection_success, connLive >>
storeVars   == << tableExists, committed, pending, commits, rollbacks >>
endVars     == << outcome, exitCode >>

\* ------------------------------------------------------------ DataProcessor

\* Variant of extract_data: there is no clause for EmptyDataError, an empty
\* file is handled by the general clause.
ExtractDataNoEmptyClause(kind, rows) ==
    CASE kind = "ok"              -> [ df |-> rows,  ok |-> "True",  err |-> "none", raised |-> FALSE ]
      [] kind = "missing_columns" -> [ df |-> << >>, ok |-> "False", err |-> "Missing required columns", raised |-> FALSE ]
      [] kind = "missing"         -> [ df |-> << >>, ok |-> "False", err |-> "Input file not found", raised |-> FALSE ]
      [] OTHER                    -> [ df |-> << >>, ok |-> "False", err |-> "Error extracting data", raised |-> FALSE ]

\* extract_data: (dataframe, success_flag, logged error) for a given input file,
\* and whether the call raised: every exception of the try block is caught.
\* A file holding only the header line reads as an empty frame with ok = True.
ExtractData(kind, rows) ==
    CASE kind = "ok"              -> [ df |-> rows,  ok |-> "True",  err |-> "none", raised |-> FALSE ]
      [] kind = "missing_columns" -> [ df |-> << >>, ok |-> "False", err |-> "Missing required columns", raised |-> FALSE ]
      [] kind = "missing"         -> [ df |-> << >>, ok |-> "False", err |-> "Input file not found", raised |-> FALSE ]
      [] kind = "empty"           -> [ df |-> << >>, ok |-> "False", err |-> "Input file is empty", raised |-> FALSE ]
      [] OTHER                    -> [ df |-> << >>, ok |-> "False", err |-> "Error extracting data", raised |-> FALSE ]

\* str.lower() on the letters that occur in the names.
UpperChars == << "A", "B", "C", "D", "E", "F", "G", "H", "I", "J", "K", "L", "M",
                 "N", "O", "P", "Q", "R", "S", "T", "U", "V", "W", "X", "Y", "Z" >>

LowerChars == << "a", "b", "c", "d", "e", "f", "g", "h", "i", "j", "k", "l", "m",
                 "n", "o", "p", "q", "r", "s", "t", "u", "v", "w", "x", "y", "z" >>

LowerChar(c) ==
    IF \E i \in 1..Len(UpperChars) : UpperChars[i] = c
    THEN LowerChars[CHOOSE i \in 1..Len(UpperChars) : UpperChars[i] = c]
    ELSE c

Lower(str) == [ i \in 1..Len(str) |-> LowerChar(str[i]) ]

\* `word in str`: word occurs in str as a contiguous piece.
Contains(str, word) ==
    \E i \in 1..(Len(str) - Len(word) + 1) :
        SubSeq(str, i, i + Len(word) - 1) = word

\* categorize_product, lines 98-103: the keyword lists of the three tests.
ComputerWords ==
    { << "l", "a", "p", "t", "o", "p" >>,
      << "m", "o", "n", "i", "t", "o", "r" >>,
      << "t", "a", "b", "l", "e", "t" >> }

AccessoryWords ==
    { << "k", "e", "y", "b", "o", "a", "r", "d" >>,
      << "m", "o", "u", "s", "e" >>,
      << "h", "e", "a", "d", "p", "h", "o", "n", "e", "s" >> }

OfficeWords ==
    { << "p", "r", "i", "n", "t", "e", "r" >>,
      << "s", "c", "a", "n", "n", "e", "r" >> }

AnyWordIn(words, str) == \E word \in words : Contains(str, word)

\* Variant of categorize_product: the accessory keywords are tested first.
CategorizeAccessoriesFirst(product) ==
    LET product_lower == Lower(product)
    IN  IF AnyWordIn(AccessoryWords, product_lower) THEN "Accessories"
        ELSE IF AnyWordIn(ComputerWords, product_lower) THEN "Computers"
        ELSE IF AnyWordIn(OfficeWords, product_lower) THEN "Office Equipment"
        ELSE "Other"

\* categorize_product, lines 95-106.
CategorizeProduct(product) ==
    LET product_lower == Lower(product)
    IN  IF AnyWordIn(ComputerWords, product_lower) THEN "Computers"
        ELSE IF AnyWordIn(AccessoryWords, product_lower) THEN "Accessories"
        ELSE IF AnyWordIn(OfficeWords, product_lower) THEN "Office Equipment"
        ELSE "Other"

\* Variant of Enrich: the total adds amount and quantity.
EnrichAdding(row) ==
    [ product     |-> row.product,
      amount      |-> row.amount,
      quantity    |-> row.quantity,
      total_sales |-> row.amount + row.quantity,
      category    |-> CategorizeProduct(row.product) ]

\* One row of the processed frame: total_sales = amount * quantity and the
\* category of the product (date, processed_at and estimated_profit are
\* left out).
Enrich(row) ==
    [ product     |-> row.product,
      amount      |-> row.amount,
      quantity    |-> row.quantity,
      total_sales |-> row.amount * row.quantity,
      category    |-> CategorizeProduct(row.product) ]

\* transform_data: one enriched record per input row, in order; a set-wide
\* error inside the try block gives the empty result.
TransformData(df, fails) ==
    IF fails THEN << >> ELSE [ i \in 1..Len(df) |-> Enrich(df[i]) ]

\* transform_data, lines 119-132: the records for the store, one per row of
\* the processed frame, without the category.
DbRecords(processed) ==
    [ i \in 1..Len(processed) |->
        [ product     |-> processed[i].product,
          amount      |-> processed[i].amount,
          quantity    |-> processed[i].quantity,
          total_sales |-> processed[i].total_sales ] ]

\* df['total_sales'].sum().
RECURSIVE SumTotal(_)
SumTotal(recs) ==
    IF recs = << >> THEN 0 ELSE recs[1].total_sales + SumTotal(Tail(recs))

NoReport ==
    [ state |-> "unset", records_processed |-> 0, records_inserted |-> 0,
      total_revenue |-> 0 ]

\* Variant of generate_report: total_revenue sums the amounts.
GenerateReportSumsAmounts(df, inserted, fails) ==
    LET RECURSIVE SumAmount(_)
        SumAmount(recs) ==
            IF recs = << >> THEN 0 ELSE recs[1].amount + SumAmount(Tail(recs))
    IN  IF fails
        THEN [ NoReport EXCEPT !.state = "empty" ]
        ELSE [ state |-> "full", records_processed |-> Len(df),
               records_inserted |-> inserted, total_revenue |-> SumAmount(df) ]

\* generate_report: the summary, or {} (every field read with default 0) when
\* building it fails.
GenerateReport(df, inserted, fails) ==
    IF fails
    THEN [ NoReport EXCEPT !.state = "empty" ]
    ELSE [ state |-> "full", records_processed |-> Len(df),
           records_inserted |-> inserted, total_revenue |-> SumTotal(df) ]

\* save_to_file: the file system after the call; a failing write is caught
\* inside save_to_file, "" is returned and no file appears.
SaveToFile(fs, df, file_type, fails) ==
    IF df = << >> \/ fails THEN fs
    ELSE Append(fs, [ type |-> file_type, rows |-> df ])

\* ------------------------------------------------------- DatabaseConnection

\* Variant of ShouldRetry: the last attempt is followed by a wait as well.
ShouldRetryAfterLast(a) == a < max_retries

\* Variant of ShouldRetry: connect gives up after the first retry.
ShouldRetryOnce(a) == a < 1

\* connect: after an OperationalError on attempt number `a` (0-based), sleep and
\* retry unless it was the last attempt.
ShouldRetry(a) == a < max_retries - 1

\* execute_query: the value returned when no exception escapes. Only a SELECT
\* that succeeded returns rows; a statement that failed and was rolled back
\* returns None, like a non-SELECT statement that succeeded.
ExecuteQueryResult(isSelect, ok) ==
    IF ok /\ isSelect THEN "rows" ELSE "None"

\* create_sales_table: True iff execute_query returned None.
CreateSalesTable(queryResult) ==
    IF queryResult = "None" THEN "True" ELSE "False"

\* The ways one insert_sales_data call can go: rejectAt = k > 0 when the
\* store rejects row k (rows before it were accepted), commitFails when the
\* commit raises, rollbackRaises when the rollback in the handler raises.
InsertOutcomes(n, tableOk) ==
    { o \in [ rejectAt : 0..n, commitFails : BOOLEAN, rollbackRaises : BOOLEAN ] :
        /\ (~tableOk => o.rejectAt = 1)
        /\ (o.commitFails => o.rejectAt = 0)
        /\ (o.rollbackRaises => (o.rejectAt # 0 \/ o.commitFails)) }

InsertFailed(o) == o.rejectAt # 0 \/ o.commitFails

\* Rows execute_batch got accepted inside the transaction.
AcceptedRows(records, o) ==
    IF o.rejectAt = 0 THEN records ELSE SubSeq(records, 1, o.rejectAt - 1)

\* The table after insert_sales_data: commit() runs only after execute_batch
\* accepted every row.
CommittedAfterInsert(before, records, o) ==
    IF InsertFailed(o) THEN before ELSE before \o records

\* ------------------------------------------------------------ entry points

\* True is the pipeline's only success signal, False its only failure signal.
OutcomeOf(res) == IF res = "True" THEN "Success" ELSE "Failure"

\* Variant of ExitCodeOf: the process always exits with 0.
ExitCodeAlwaysZero(out) == 0

\* etl_pipeline.py: sys.exit(0 if success else 1); an exception escaping
\* run_etl_pipeline ends the interpreter with status 1.
\* scheduled_etl.py main: 0 if success, 1 otherwise, 1 on any exception.
ExitCodeOf(out) == IF out = "Success" THEN 0 ELSE 1

\* External failures met by the run so far: connect (all attempts failed),
\* schema (the CREATE TABLE statement failed), insert (a row or the commit was
\* rejected), rollback (a rollback raised), csv / parquet / report (that
\* secondary step failed), close (connection.close() raised), step (an
\* exception reached the handler of run_etl_pipeline).
NoFault ==
    [ connect |-> FALSE, schema |-> FALSE, insert |-> FALSE, rollback |-> FALSE,
      csv |-> FALSE, parquet |-> FALSE, report |-> FALSE, close |-> FALSE,
      step |-> FALSE ]

\* What a call on the DatabaseConnection object did: the method, whether the
\* object held a live connection when it was called, whether the underlying
\* psycopg2 close() was called, whether the call raised, its return value, and
\* the number of psycopg2.connect attempts it made.
NoCall ==
    [ op |-> "none", heldLive |-> FALSE, underlying |-> FALSE,
      raised |-> FALSE, ret |-> "None", attempts |-> 0 ]

\* DatabaseConnection.__init__, lines 23-28: no connection yet.
HandleInit ==
    /\ hconn = 0
    /\ hOpened = 0
    /\ hLive = { }
    /\ hCalls = 0
    /\ hLast = NoCall

\* No HTTP response sent yet.
NoResponse ==
    [ path |-> "none", code |-> 0, body |-> [ status |-> "none" ],
      spawned |-> FALSE, blocked |-> FALSE, busy |-> FALSE ]

\* scheduler_server.py, lines 118-122 and 153-166: the service starts, the
\* timer thread has not run yet and no request has been served.
SchedInit ==
    /\ now = StartTime
    /\ timerPc = "poll"
    /\ nextCheck = StartTime
    /\ last_run = -1
    /\ timerProcs = 0
    /\ timerStart = -1
    /\ timerLast = "none"
    /\ manualRunning = 0
    /\ manualEnd = -1
    /\ requests = 0
    /\ lastResp = NoResponse

\* No call of categorize_product is followed.
CatIdle ==
    /\ cProduct = << >>
    /\ cResult = "unset"

\* The state of one run before its first step.
RunInit ==
    /\ entry \in { "etl_pipeline", "scheduled_etl" }
    /\ pc = "start"
    /\ raw_data = << >>
    /\ extraction_success = "unset"
    /\ extract_error = "none"
    /\ db_records = << >>
    /\ processed_data = << >>
    /\ connection = "None"
    /\ attempt = 0
    /\ attempts = 0
    /\ sleeps = 0
    /\ waited = 0
    /\ allOpErr = TRUE
    /\ connection_success = "unset"
    /\ table_success = "unset"
    /\ inserted_count = -1
    /\ connLive = FALSE
    /\ tableExists \in BOOLEAN
    /\ committed = << >>
    /\ pending = << >>
    /\ commits = 0
    /\ rollbacks = 0
    /\ files = << >>
    /\ report = NoReport
    /\ result = "unset"
    /\ outcome = "none"
    /\ exitCode = -1
    /\ sinkOps = << >>
    /\ fault = NoFault
    /\ errorLogged = FALSE

Init ==
    /\ sourceKind \in SourceKinds
    /\ sourceRows \in SeqsUpTo(RawRows, MaxRecords)
    /\ (sourceKind \in { "missing", "empty" } => sourceRows = << >>)
    /\ RunInit
    /\ HandleInit
    /\ SchedInit
    /\ CatIdle

\* ------------------------------------------------------- run_etl_pipeline

\* Line 68: `not extraction_success or raw_data.empty`.
ExtractionFailed(ok, df) == ok # "True" \/ df = << >>

\* Variant of TransformFailed: the emptiness check is missing.
TransformFailedUnchecked(recs, df) == FALSE

\* Line 78: `not db_records or processed_data.empty`.
TransformFailed(recs, df) == recs = << >> \/ df = << >>

\* Variant of the except clause: the exception is swallowed and the run
\* reports success.
RaiseSwallowed(flt) ==
    /\ errorLogged' = TRUE
    /\ result' = "True"
    /\ fault' = [ flt EXCEPT !.step = TRUE ]
    /\ pc' = "cleanup"

\* The except clause of run_etl_pipeline: log the error, return False; the
\* finally clause runs next.
Raise(flt) ==
    /\ errorLogged' = TRUE
    /\ result' = "False"
    /\ fault' = [ flt EXCEPT !.step = TRUE ]
    /\ pc' = "cleanup"

\* Variant of ReturnFalse: the early return leaves the function without
\* running the finally clause.
ReturnFalseSkipsCleanup ==
    /\ errorLogged' = TRUE
    /\ result' = "False"
    /\ pc' = "done"

\* Variant of ReturnFalse: the return is not announced in the log.
ReturnFalseSilent ==
    /\ UNCHANGED errorLogged
    /\ result' = "False"
    /\ pc' = "cleanup"

\* An early `return False` inside the try block, each announced by a
\* logger.error entry (lines 69, 79, 89, 103, 111); the finally clause runs
\* next.
ReturnFalse ==
    /\ errorLogged' = TRUE
    /\ result' = "False"
    /\ pc' = "cleanup"

\* Lines 55-61: logging and the two components are set up. Under
\* scheduled_etl.py this follows a successful import of the pipeline.
Initialize ==
    /\ pc = "start"
    /\ pc' = "extract"
    /\ UNCHANGED << notRun, entry, sourceVars, extractVars, transVars, connectVars,
                    table_success, inserted_count, storeVars, files, report,
                    result, endVars, sinkOps, fault, errorLogged >>

\* scheduled_etl.py main, lines 42-57: the import of the pipeline fails, a
\* test file is written instead and main returns 0. When the test file cannot
\* be written the exception reaches lines 59-61 and main returns 1.
ImportErrorTestMode ==
    /\ pc = "start"
    /\ entry = "scheduled_etl"
    /\ \E written \in BOOLEAN :
          IF written
          THEN /\ files' = Append(files, [ type |-> "test", rows |-> << >> ])
               /\ exitCode' = 0
          ELSE /\ files' = files
               /\ exitCode' = 1
    /\ pc' = "exited"
    /\ UNCHANGED << notRun, entry, sourceVars, extractVars, transVars, connectVars,
                    table_success, inserted_count, storeVars, report, result,
                    outcome, sinkOps, fault, errorLogged >>

\* Step 1, lines 64-72.
Extract ==
    /\ pc = "extract"
    /\ LET r == ExtractData(sourceKind, sourceRows)
       IN  IF r.raised
           THEN /\ Raise(fault)
                /\ UNCHANGED extractVars
           ELSE /\ raw_data' = r.df
                /\ extraction_success' = r.ok
                /\ extract_error' = r.err
                /\ IF ExtractionFailed(r.ok, r.df)
                   THEN ReturnFalse
                   ELSE /\ pc' = "transform"
                        /\ UNCHANGED << result, errorLogged >>
                /\ UNCHANGED fault
    /\ UNCHANGED << notRun, entry, sourceVars, transVars, connectVars, table_success,
                    inserted_count, storeVars, files, report, endVars,
                    sinkOps >>

\* Variant of Transform: after a failed transformation the run goes back to
\* the extraction.
TransformRetriesExtract ==
    /\ pc = "transform"
    /\ \E fails \in BOOLEAN :
         LET recs == TransformData(raw_data, fails)
         IN  /\ db_records' = DbRecords(recs)
             /\ processed_data' = recs
             /\ pc' = IF TransformFailed(DbRecords(recs), recs)
                      THEN "extract" ELSE "connect"
    /\ UNCHANGED << notRun, entry, sourceVars, extractVars, connectVars, table_success,
                    inserted_count, storeVars, files, report, result, endVars,
                    sinkOps, fault, errorLogged >>

\* Step 2, lines 74-82.
Transform ==
    /\ pc = "transform"
    /\ \E fails \in BOOLEAN :
         LET recs == TransformData(raw_data, fails)
         IN  /\ db_records' = DbRecords(recs)
             /\ processed_data' = recs
             /\ IF TransformFailed(DbRecords(recs), recs)
                THEN ReturnFalse
                ELSE /\ pc' = "connect"
                     /\ UNCHANGED << result, errorLogged >>
    /\ UNCHANGED << notRun, entry, sourceVars, extractVars, connectVars, table_success,
                    inserted_count, storeVars, files, report, endVars,
                    sinkOps, fault >>


\* Step 3, DatabaseConnection.connect lines 37-64: one pass of the retry loop.
\* psycopg2.connect returns a connection, raises OperationalError, or raises
\* something else, which connect does not catch.
ConnectAttempt ==
    /\ pc = "connect"
    /\ sinkOps' = IF attempt = 0 THEN Append(sinkOps, "connect") ELSE sinkOps
    /\ IF attempt >= max_retries
       THEN \* the loop is exhausted: line 64
            /\ connection_success' = "False"
            /\ fault' = [ fault EXCEPT !.connect = TRUE ]
            /\ pc' = "fallback"
            /\ UNCHANGED << connection, attempts, allOpErr, connLive, result,
                            errorLogged >>
       ELSE /\ attempts' = attempts + 1
            /\ \E r \in { "ok", "OperationalError", "Error" } :
                 \/ /\ r = "ok"
                    /\ connection' = "conn"
                    /\ connLive' = TRUE
                    /\ allOpErr' = FALSE
                    /\ connection_success' = "True"
                    /\ pc' = "schema"
                    /\ UNCHANGED << result, fault, errorLogged >>
                 \/ /\ r = "OperationalError"
                    /\ IF ShouldRetry(attempt)
                       THEN /\ pc' = "sleep"
                            /\ UNCHANGED << connection_success, fault >>
                       ELSE /\ connection_success' = "False"
                            /\ fault' = [ fault EXCEPT !.connect = TRUE ]
                            /\ pc' = "fallback"
                    /\ UNCHANGED << connection, connLive, allOpErr, result,
                                    errorLogged >>
                 \/ /\ r = "Error"
                    /\ allOpErr' = FALSE
                    /\ Raise(fault)
                    /\ UNCHANGED << connection, connLive, connection_success >>
    /\ UNCHANGED << notRun, entry, sourceVars, extractVars, transVars, attempt, sleeps,
                    waited, table_success, inserted_count, storeVars, files,
                    report, endVars >>

\* connect lines 57-59: time.sleep(retry_delay), then the next pass.
Sleep ==
    /\ pc = "sleep"
    /\ sleeps' = sleeps + 1
    /\ waited' = waited + retry_delay
    /\ attempt' = attempt + 1
    /\ pc' = "connect"
    /\ UNCHANGED << notRun, entry, sourceVars, extractVars, transVars, connection,
                    attempts, allOpErr, connection_success, connLive,
                    table_success, inserted_count, storeVars, files, report,
                    result, endVars, sinkOps, fault, errorLogged >>

\* Variant of Fallback: the `return False` after the backup is missing and the
\* run goes on to the schema step.
FallbackFallsThrough ==
    /\ pc = "fallback"
    /\ \E fails \in BOOLEAN :
         /\ files' = SaveToFile(files, processed_data, "csv", fails)
         /\ fault' = [ fault EXCEPT !.csv = fails ]
    /\ pc' = "schema"
    /\ UNCHANGED << notRun, entry, sourceVars, extractVars, transVars, connectVars,
                    table_success, inserted_count, storeVars, report, result,
                    endVars, sinkOps, errorLogged >>

\* Lines 88-96: the store is unreachable; the transformed data goes to a CSV
\* file and the run returns False.
Fallback ==
    /\ pc = "fallback"
    /\ \E fails \in BOOLEAN :
         /\ files' = SaveToFile(files, processed_data, "csv", fails)
         /\ fault' = [ fault EXCEPT !.csv = fails ]
    /\ ReturnFalse
    /\ UNCHANGED << notRun, entry, sourceVars, extractVars, transVars, connectVars,
                    table_success, inserted_count, storeVars, report, endVars,
                    sinkOps >>

\* Step 4, lines 98-104, create_sales_table and execute_query lines 77-100.
\* The CREATE TABLE IF NOT EXISTS statement succeeds and is committed; or it
\* fails and is rolled back; or it fails and the rollback raises too.
Schema ==
    /\ pc = "schema"
    /\ sinkOps' = Append(sinkOps, "create_sales_table")
    /\ \E how \in { "ok", "fail", "fail_rollback_raises" } :
         \/ /\ how = "ok"
            /\ tableExists' = TRUE
            /\ table_success' = CreateSalesTable(ExecuteQueryResult(FALSE, TRUE))
            /\ IF table_success' # "True"
               THEN ReturnFalse
               ELSE /\ pc' = "insert"
                    /\ UNCHANGED << result, errorLogged >>
            /\ UNCHANGED << rollbacks, fault >>
         \/ /\ how = "fail"
            /\ rollbacks' = rollbacks + 1
            /\ table_success' = CreateSalesTable(ExecuteQueryResult(FALSE, FALSE))
            /\ IF table_success' # "True"
               THEN ReturnFalse
               ELSE /\ pc' = "insert"
                    /\ UNCHANGED << result, errorLogged >>
            /\ fault' = [ fault EXCEPT !.schema = TRUE ]
            /\ UNCHANGED tableExists
         \/ /\ how = "fail_rollback_raises"
            /\ Raise([ fault EXCEPT !.schema = TRUE, !.rollback = TRUE ])
            /\ UNCHANGED << tableExists, table_success, rollbacks >>
    /\ UNCHANGED << notRun, entry, sourceVars, extractVars, transVars, connectVars,
                    inserted_count, committed, pending, commits, files, report,
                    endVars >>

\* Step 5, lines 106-114, insert_sales_data lines 143-179: execute_batch inside
\* one transaction, then one commit; on any exception a rollback and 0.
InsertCountsAcceptedRows ==
    /\ pc = "insert"
    /\ sinkOps' = Append(sinkOps, "insert_sales_data")
    /\ \E o \in InsertOutcomes(Len(db_records), tableExists) :
         /\ committed' = CommittedAfterInsert(committed, db_records, o)
         /\ IF ~InsertFailed(o)
            THEN /\ commits' = commits + 1
                 /\ inserted_count' = Len(db_records)
                 /\ pc' = "save_csv"
                 /\ UNCHANGED << pending, rollbacks, result, fault, errorLogged >>
            ELSE IF ~o.rollbackRaises
            THEN /\ rollbacks' = rollbacks + 1
                 /\ inserted_count' = Len(AcceptedRows(db_records, o))
                 /\ fault' = [ fault EXCEPT !.insert = TRUE ]
                 /\ IF AcceptedRows(db_records, o) = << >>
                    THEN ReturnFalse
                    ELSE /\ pc' = "save_csv"
                         /\ UNCHANGED << result, errorLogged >>
                 /\ UNCHANGED << pending, commits >>
            ELSE /\ pending' = AcceptedRows(db_records, o)
                 /\ Raise([ fault EXCEPT !.insert = TRUE, !.rollback = TRUE ])
                 /\ UNCHANGED << inserted_count, commits, rollbacks >>
    /\ UNCHANGED << notRun, entry, sourceVars, extractVars, transVars, connectVars,
                    table_success, tableExists, files, report, endVars >>

Insert ==
    /\ pc = "insert"
    /\ sinkOps' = Append(sinkOps, "insert_sales_data")
    /\ \E o \in InsertOutcomes(Len(db_records), tableExists) :
         /\ committed' = CommittedAfterInsert(committed, db_records, o)
         /\ IF ~InsertFailed(o)
            THEN /\ commits' = commits + 1
                 /\ inserted_count' = Len(db_records)
                 /\ pc' = "save_csv"
                 /\ UNCHANGED << pending, rollbacks, result, fault, errorLogged >>
            ELSE IF ~o.rollbackRaises
            THEN /\ rollbacks' = rollbacks + 1
                 /\ inserted_count' = 0
                 /\ fault' = [ fault EXCEPT !.insert = TRUE ]
                 /\ ReturnFalse
                 /\ UNCHANGED << pending, commits >>
            ELSE /\ pending' = AcceptedRows(db_records, o)
                 /\ Raise([ fault EXCEPT !.insert = TRUE, !.rollback = TRUE ])
                 /\ UNCHANGED << inserted_count, commits, rollbacks >>
    /\ UNCHANGED << notRun, entry, sourceVars, extractVars, transVars, connectVars,
                    table_success, tableExists, files, report, endVars >>

\* Step 6, line 118: the CSV backup; a failure is logged inside save_to_file.
SaveCsv ==
    /\ pc = "save_csv"
    /\ \E fails \in BOOLEAN :
         /\ files' = SaveToFile(files, processed_data, "csv", fails)
         /\ fault' = [ fault EXCEPT !.csv = fails ]
    /\ pc' = "save_parquet"
    /\ UNCHANGED << notRun, entry, sourceVars, extractVars, transVars, connectVars,
                    table_success, inserted_count, storeVars, report, result,
                    endVars, sinkOps, errorLogged >>

\* Step 6, line 119: the Parquet backup.
SaveParquet ==
    /\ pc = "save_parquet"
    /\ \E fails \in BOOLEAN :
         /\ files' = SaveToFile(files, processed_data, "parquet", fails)
         /\ fault' = [ fault EXCEPT !.parquet = fails ]
    /\ pc' = "report"
    /\ UNCHANGED << notRun, entry, sourceVars, extractVars, transVars, connectVars,
                    table_success, inserted_count, storeVars, report, result,
                    endVars, sinkOps, errorLogged >>

\* Variant of Report: generate_report does not catch its own failure, which
\* then reaches the except clause of run_etl_pipeline.
ReportUnguarded ==
    /\ pc = "report"
    /\ \E fails \in BOOLEAN :
         IF fails
         THEN /\ Raise([ fault EXCEPT !.report = TRUE ])
              /\ UNCHANGED report
         ELSE /\ report' = GenerateReport(processed_data, inserted_count, FALSE)
              /\ result' = "True"
              /\ pc' = "cleanup"
              /\ UNCHANGED << fault, errorLogged >>
    /\ UNCHANGED << notRun, entry, sourceVars, extractVars, transVars, connectVars,
                    table_success, inserted_count, storeVars, files, endVars,
                    sinkOps >>

\* Step 7, lines 126-150: the report is generated and logged, then `return True`.
Report ==
    /\ pc = "report"
    /\ \E fails \in BOOLEAN :
         /\ report' = GenerateReport(processed_data, inserted_count, fails)
         /\ fault' = [ fault EXCEPT !.report = fails ]
    /\ result' = "True"
    /\ pc' = "cleanup"
    /\ UNCHANGED << notRun, entry, sourceVars, extractVars, transVars, connectVars,
                    table_success, inserted_count, storeVars, files, endVars,
                    sinkOps, errorLogged >>

\* Variant of Cleanup: close() logs the closing but leaves the connection open.
CleanupKeepsConnection ==
    /\ pc = "cleanup"
    /\ sinkOps' = Append(sinkOps, "close")
    /\ outcome' = OutcomeOf(result)
    /\ pc' = "done"
    /\ UNCHANGED << notRun, entry, sourceVars, extractVars, transVars, connectVars,
                    table_success, inserted_count, storeVars, files, report,
                    result, exitCode, fault, errorLogged >>

\* Step 8, the finally clause, lines 157-161, and close, lines 181-185. close()
\* is not guarded: an exception of connection.close() leaves the finally
\* clause and replaces the pending return value.
Cleanup ==
    /\ pc = "cleanup"
    /\ sinkOps' = Append(sinkOps, "close")
    /\ IF connection = "None"
       THEN /\ outcome' = OutcomeOf(result)
            /\ UNCHANGED << connLive, pending, fault >>
       ELSE \E raises \in BOOLEAN :
              IF raises
              THEN /\ outcome' = "Raised"
                   /\ fault' = [ fault EXCEPT !.close = TRUE ]
                   /\ UNCHANGED << connLive, pending >>
              ELSE /\ outcome' = OutcomeOf(result)
                   /\ connLive' = FALSE
                   /\ pending' = << >>
                   /\ UNCHANGED fault
    /\ pc' = "done"
    /\ UNCHANGED << notRun, entry, sourceVars, extractVars, transVars, connection,
                    attempt, attempts, sleeps, waited, allOpErr,
                    connection_success, table_success, inserted_count,
                    tableExists, committed, commits, rollbacks, files, report,
                    result, exitCode, errorLogged >>

\* etl_pipeline.py lines 163-170, scheduled_etl.py lines 33-40 and 59-61.
Exit ==
    /\ pc = "done"
    /\ exitCode' = ExitCodeOf(outcome)
    /\ pc' = "exited"
    /\ UNCHANGED << notRun, entry, sourceVars, extractVars, transVars, connectVars,
                    table_success, inserted_count, storeVars, files, report,
                    result, outcome, sinkOps, fault, errorLogged >>

Next ==
    \/ Initialize
    \/ ImportErrorTestMode
    \/ Extract
    \/ Transform
    \/ ConnectAttempt
    \/ Sleep
    \/ Fallback
    \/ Schema
    \/ Insert
    \/ SaveCsv
    \/ SaveParquet
    \/ Report
    \/ Cleanup
    \/ Exit

Spec == Init /\ [][Next]_vars

\* The run is a sequential program: as long as each external call returns,
\* its next step is taken.
SpecTerminating == Init /\ [][Next]_vars /\ WF_vars(Next)


\* ------------------------------- one DatabaseConnection, any call sequence

\* DatabaseConnection.connect, lines 30-64, as one call: attempt k succeeds
\* (the ones before it raised OperationalError) and self.connection is
\* assigned the new connection, whatever it referred to before; or all
\* max_retries attempts raise OperationalError and False is returned; or
\* attempt k raises another error, which leaves connect. The last two leave
\* self.connection as it was. connect never closes the connection the object
\* referred to before: once unreferenced it stays open until the garbage
\* collector finalizes it, which can be at once or not at all.
HConnect ==
    /\ hCalls < MaxCalls
    /\ hCalls' = hCalls + 1
    /\ \E how \in { "ok", "exhausted", "error" }, k \in 1..max_retries :
         \/ /\ how = "ok"
            /\ hOpened' = hOpened + 1
            /\ \E collected \in BOOLEAN :
                 hLive' = (IF collected THEN hLive \ { hconn } ELSE hLive)
                              \cup { hOpened + 1 }
            /\ hconn' = hOpened + 1
            /\ hLast' = [ NoCall EXCEPT !.op = "connect", !.ret = "True",
                                        !.heldLive = hconn \in hLive,
                                        !.attempts = k ]
         \/ /\ how = "exhausted"
            /\ k = max_retries
            /\ hLast' = [ NoCall EXCEPT !.op = "connect", !.ret = "False",
                                        !.heldLive = hconn \in hLive,
                                        !.attempts = k ]
            /\ UNCHANGED << hconn, hOpened, hLive >>
         \/ /\ how = "error"
            /\ hLast' = [ NoCall EXCEPT !.op = "connect", !.raised = TRUE,
                                        !.heldLive = hconn \in hLive,
                                        !.attempts = k ]
            /\ UNCHANGED << hconn, hOpened, hLive >>
    /\ UNCHANGED << runVars, schedVars, catVars >>

\* DatabaseConnection.close, lines 181-185: `if self.connection:` is true for
\* any connection object, open or closed, and self.connection is not reset.
\* The underlying close() of an open connection releases it or raises; on a
\* connection that is already closed it returns without effect.
HClose ==
    /\ hCalls < MaxCalls
    /\ hCalls' = hCalls + 1
    /\ IF hconn = 0
       THEN /\ hLast' = [ NoCall EXCEPT !.op = "close" ]
            /\ UNCHANGED hLive
       ELSE IF hconn \in hLive
       THEN \E raises \in BOOLEAN :
              /\ hLive' = IF raises THEN hLive ELSE hLive \ { hconn }
              /\ hLast' = [ NoCall EXCEPT !.op = "close", !.heldLive = TRUE,
                                          !.underlying = TRUE, !.raised = raises ]
       ELSE /\ hLast' = [ NoCall EXCEPT !.op = "close", !.underlying = TRUE ]
            /\ UNCHANGED hLive
    /\ UNCHANGED << hconn, hOpened >>
    /\ UNCHANGED << runVars, schedVars, catVars >>

\* The run variables are idle while the object is driven on its own.
RunIdle ==
    /\ sourceKind = "ok"
    /\ sourceRows = << >>
    /\ RunInit
    /\ entry = "etl_pipeline"
    /\ tableExists = FALSE

InitHandle == RunIdle /\ HandleInit /\ SchedInit /\ CatIdle

NextHandle == HConnect \/ HClose

SpecHandle == InitHandle /\ [][NextHandle]_vars

\* ------------------------------------------------------ scheduler service

\* scheduler_server.py, lines 129-130: the timer starts a run when the clock
\* is in the first seconds of a minute divisible by five and either no timer
\* run has ended yet or the last one ended more than the tolerance ago
\* (timedelta.seconds: the difference modulo one day).
DueByElapsed(t, lr) ==
    lr = -1 \/ t - lr >= WindowEveryMinutes * 60

\* Variant of the rule: the time of the last run is not looked at.
DueWithoutTolerance(t, lr) ==
    /\ ((t \div 60) % 60) % WindowEveryMinutes = 0
    /\ t % 60 < WindowSeconds

Due(t, lr) ==
    /\ ((t \div 60) % 60) % WindowEveryMinutes = 0
    /\ t % 60 < WindowSeconds
    /\ (lr = -1 \/ ((t - lr) % SecondsPerDay) > SkipTolerance)

\* scheduler_server.py, lines 134-145: last_run is assigned after the
\* try/except around subprocess.run, whatever the run's result r.
LastRunOnSuccessOnly(r, old, t) ==
    IF r = "ok" THEN t ELSE old

LastRunAfter(r, old, t) ==
    t

\* A pipeline subprocess is executing, started by the timer or by a request.
RunExecuting == timerProcs + manualRunning > 0

\* scheduler_server.py, lines 68-73: the body of the /run-now response
\* (the timestamp field is left out of every body).
RunNowBody ==
    [ message |-> "ETL pipeline started in background",
      status |-> "processing",
      note |-> "Check logs for execution details" ]

\* scheduler_server.py, lines 95-102: the body of the /status response.
StatusBodyReflectsRuns ==
    [ status |-> IF RunExecuting THEN "running" ELSE "operational",
      service |-> "etl-scheduler",
      uptime |-> "running",
      schedule_active |-> TRUE ]

StatusBody ==
    [ status |-> "operational",
      service |-> "etl-scheduler",
      uptime |-> "running",
      schedule_active |-> TRUE ]

\* scheduler_server.py, lines 14-45, 76-89 and 104-112: the other paths.
OtherPaths == { "/health", "/", "/schedule", "/missing" }

OtherCode(path) == IF path = "/missing" THEN 404 ELSE 200

OtherBody(path) ==
    CASE path = "/health" ->
            [ status |-> "healthy", service |-> "etl-scheduler",
              scheduler |-> "running", environment |-> "production" ]
      [] path = "/" ->
            [ html |-> "ETL Pipeline Scheduler" ]
      [] path = "/schedule" ->
            [ schedule |-> << "Daily at 02:00 AM", "Every 5 minutes",
                              "On-demand" >>,
              environment |-> "production" ]
      [] OTHER ->
            [ error |-> "Endpoint not found" ]

\* The clock advances by one second.  The timer thread is not overtaken: a
\* check that is due (time.sleep(1) has returned) happens before the next
\* second begins.
Tick ==
    /\ now < MaxTime
    /\ ~(timerPc = "poll" /\ nextCheck <= now)
    /\ now' = now + 1
    /\ manualEnd' = IF now + 1 - manualEnd > MaxRecall THEN -1 ELSE manualEnd
    /\ UNCHANGED << timerPc, nextCheck, last_run, timerProcs, timerStart,
                    timerLast, manualRunning, requests, lastResp >>
    /\ UNCHANGED << runVars, handleVars, catVars >>

\* scheduled_task, lines 127-132 and 147: one turn of the loop.  When the
\* rule holds the thread starts the pipeline subprocess and blocks in
\* subprocess.run; otherwise it sleeps one second.
TimerCheckNonBlocking ==
    /\ timerPc = "poll"
    /\ nextCheck <= now
    /\ IF Due(now, last_run)
         THEN /\ timerProcs' = timerProcs + 1
              /\ timerStart' = now
              /\ last_run' = now
         ELSE UNCHANGED << timerProcs, timerStart, last_run >>
    /\ nextCheck' = now + PollSeconds
    /\ UNCHANGED << now, timerPc, timerLast, manualRunning, requests,
                    lastResp >>
    /\ UNCHANGED << runVars, handleVars, catVars, manualEnd >>

TimerCheck ==
    /\ timerPc = "poll"
    /\ nextCheck <= now
    /\ IF Due(now, last_run)
         THEN /\ timerPc' = "running"
              /\ timerProcs' = timerProcs + 1
              /\ timerStart' = now
              /\ UNCHANGED nextCheck
         ELSE /\ nextCheck' = now + PollSeconds
              /\ UNCHANGED << timerPc, timerProcs, timerStart >>
    /\ UNCHANGED << now, last_run, timerLast, manualRunning, requests,
                    lastResp >>
    /\ UNCHANGED << runVars, handleVars, catVars, manualEnd >>

\* scheduled_task, lines 134-147: subprocess.run returns (exit code 0 or
\* not) or raises; the result is printed, last_run is set to the time of
\* return, and the thread sleeps one second.
TimerFinishStopsOnError ==
    /\ timerProcs > 0
    /\ now - timerStart \in RunDurations
    /\ \E r \in { "ok", "failed", "error" } :
         /\ timerLast' = r
         /\ IF r = "error"
              THEN /\ timerPc' = "stopped"
                   /\ UNCHANGED << last_run, nextCheck >>
              ELSE /\ timerPc' = "poll"
                   /\ last_run' = LastRunAfter(r, last_run, now)
                   /\ nextCheck' = now + PollSeconds
    /\ timerProcs' = timerProcs - 1
    /\ UNCHANGED << now, timerStart, manualRunning, requests, lastResp >>
    /\ UNCHANGED << runVars, handleVars, catVars, manualEnd >>

TimerFinish ==
    /\ timerProcs > 0
    /\ now - timerStart \in RunDurations
    /\ \E r \in { "ok", "failed", "error" } :
         /\ timerLast' = r
         /\ last_run' = LastRunAfter(r, last_run, now)
    /\ timerProcs' = timerProcs - 1
    /\ timerPc' = "poll"
    /\ nextCheck' = now + PollSeconds
    /\ UNCHANGED << now, timerStart, manualRunning, requests, lastResp >>
    /\ UNCHANGED << runVars, handleVars, catVars, manualEnd >>

\* do_GET, lines 46-74: /run-now starts a thread that runs the pipeline
\* subprocess and sends the acknowledgement.
GetRunNowGuarded ==
    /\ requests < MaxRequests
    /\ requests' = requests + 1
    /\ IF RunExecuting
         THEN /\ UNCHANGED manualRunning
              /\ lastResp' = [ path |-> "/run-now", code |-> 200,
                               body |-> [ status |-> "already running" ],
                               spawned |-> FALSE, blocked |-> FALSE,
                               busy |-> TRUE ]
         ELSE /\ manualRunning' = manualRunning + 1
              /\ lastResp' = [ path |-> "/run-now", code |-> 200,
                               body |-> RunNowBody,
                               spawned |-> TRUE, blocked |-> FALSE,
                               busy |-> FALSE ]
    /\ UNCHANGED << now, timerPc, nextCheck, last_run, timerProcs,
                    timerStart, timerLast >>
    /\ UNCHANGED << runVars, handleVars, catVars, manualEnd >>

GetRunNowSynchronous ==
    /\ requests < MaxRequests
    /\ requests' = requests + 1
    /\ \E r \in { "ok", "failed" } :
         lastResp' = [ path |-> "/run-now", code |-> 200,
                       body |-> [ status |-> r ],
                       spawned |-> FALSE, blocked |-> TRUE,
                       busy |-> RunExecuting ]
    /\ UNCHANGED << now, timerPc, nextCheck, last_run, timerProcs,
                    timerStart, timerLast, manualRunning >>
    /\ UNCHANGED << runVars, handleVars, catVars, manualEnd >>

GetRunNow ==
    /\ requests < MaxRequests
    /\ requests' = requests + 1
    /\ manualRunning' = manualRunning + 1
    /\ lastResp' = [ path |-> "/run-now", code |-> 200,
                     body |-> RunNowBody,
                     spawned |-> TRUE, blocked |-> FALSE,
                     busy |-> RunExecuting ]
    /\ UNCHANGED << now, timerPc, nextCheck, last_run, timerProcs,
                    timerStart, timerLast >>
    /\ UNCHANGED << runVars, handleVars, catVars, manualEnd >>

\* run_etl_background, lines 47-61: the subprocess of a manual run returns
\* or raises; the thread prints the result and ends.
ManualFinishSetsLastRun ==
    /\ manualRunning > 0
    /\ manualRunning' = manualRunning - 1
    /\ manualEnd' = now
    /\ last_run' = now
    /\ UNCHANGED << now, timerPc, nextCheck, timerProcs,
                    timerStart, timerLast, requests, lastResp >>
    /\ UNCHANGED << runVars, handleVars, catVars >>

ManualFinish ==
    /\ manualRunning > 0
    /\ manualRunning' = manualRunning - 1
    /\ manualEnd' = now
    /\ UNCHANGED << now, timerPc, nextCheck, last_run, timerProcs,
                    timerStart, timerLast, requests, lastResp >>
    /\ UNCHANGED << runVars, handleVars, catVars >>

\* do_GET, lines 91-103: /status.
GetStatus ==
    /\ requests < MaxRequests
    /\ requests' = requests + 1
    /\ lastResp' = [ path |-> "/status", code |-> 200,
                     body |-> StatusBody,
                     spawned |-> FALSE, blocked |-> FALSE,
                     busy |-> RunExecuting ]
    /\ UNCHANGED << now, timerPc, nextCheck, last_run, timerProcs,
                    timerStart, timerLast, manualRunning >>
    /\ UNCHANGED << runVars, handleVars, catVars, manualEnd >>

\* do_GET, lines 14-45, 76-89 and 104-112: /health, /, /schedule and any
\* unknown path.
GetOther(path) ==
    /\ requests < MaxRequests
    /\ requests' = requests + 1
    /\ lastResp' = [ path |-> path, code |-> OtherCode(path),
                     body |-> OtherBody(path),
                     spawned |-> FALSE, blocked |-> FALSE,
                     busy |-> RunExecuting ]
    /\ UNCHANGED << now, timerPc, nextCheck, last_run, timerProcs,
                    timerStart, timerLast, manualRunning >>
    /\ UNCHANGED << runVars, handleVars, catVars, manualEnd >>

\* The service from its start: no pipeline run or handle of the sections
\* above is involved.
InitSched ==
    /\ RunIdle
    /\ HandleInit
    /\ SchedInit
    /\ CatIdle

NextSched ==
    \/ Tick
    \/ TimerCheck
    \/ TimerFinish
    \/ GetRunNow
    \/ ManualFinish
    \/ GetStatus
    \/ \E path \in OtherPaths : GetOther(path)

SpecSched == InitSched /\ [][NextSched]_vars

\* ------------------------------------------------------- categorize_product

\* The pieces of a name put together.
RECURSIVE Concat(_)
Concat(pieces) ==
    IF pieces = << >> THEN << >> ELSE pieces[1] \o Concat(Tail(pieces))

\* The product names categorize_product is called with.
ProductNames ==
    { Concat(pieces) : pieces \in SeqsUpTo(Fragments, MaxFragments) }

\* transform_data, line 108: categorize_product is applied to a product name.
Categorize ==
    /\ cResult = "unset"
    /\ cResult' = CategorizeProduct(cProduct)
    /\ UNCHANGED cProduct
    /\ UNCHANGED << runVars, handleVars, schedVars >>

InitCategorize ==
    /\ RunIdle
    /\ HandleInit
    /\ SchedInit
    /\ cProduct \in ProductNames
    /\ cResult = "unset"

NextCategorize == Categorize

SpecCategorize == InitCategorize /\ [][NextCategorize]_vars

\* ------------------------------------------------------------------ claims

\* run_etl_pipeline has returned or raised (the test mode of scheduled_etl.py,
\* which runs no pipeline, is excluded).
RunEnded == pc \in { "done", "exited" } /\ result # "unset"

RECURSIVE Count(_, _)
Count(seq, x) ==
    IF seq = << >> THEN 0
    ELSE (IF seq[1] = x THEN 1 ELSE 0) + Count(Tail(seq), x)

\* connect() has returned or raised.
ConnectOver == attempts > 0 /\ pc \notin { "connect", "sleep" }

\* C1: against a store where every attempt raises OperationalError, connect()
\* makes exactly max_retries attempts, sleeps retry_delay between consecutive
\* attempts only (max_retries - 1 sleeps, none after the last attempt) and
\* returns False.
C1_ConnectExhaustsRetries ==
    /\ (ConnectOver /\ allOpErr) =>
          /\ connection_success = "False"
          /\ attempts = max_retries
          /\ sleeps = max_retries - 1
          /\ waited = (max_retries - 1) * retry_delay
    /\ (pc = "sleep" => attempts < max_retries /\ sleeps = attempts - 1)
    /\ (pc = "connect" => sleeps = attempts)

C1_Witness ==
    /\ ConnectOver /\ allOpErr
    /\ connection_success = "False"
    /\ attempts = max_retries
    /\ sleeps = max_retries - 1

\* C2: insert_sales_data is all-or-nothing: when the store rejects a row or
\* the commit fails, the batch is rolled back, no row of it is committed and 0
\* is returned; on success one commit is issued and len(records) is returned.
C2_InsertAllOrNothing ==
    Count(sinkOps, "insert_sales_data") = 1 =>
        IF fault.insert
        THEN /\ committed = << >>
             /\ commits = 0
             /\ inserted_count = 0
        ELSE /\ committed = db_records
             /\ commits = 1
             /\ inserted_count = Len(db_records)

\* C3 as claimed: after connect() failed on every retry the run writes a backup
\* file holding exactly the transformed records, runs neither the schema nor
\* the insert step, and ends with the outcome PartialFailure.
C3_FallbackIsPartialFailure ==
    (RunEnded /\ connection_success = "False") =>
        /\ files = << [ type |-> "csv", rows |-> processed_data ] >>
        /\ Count(sinkOps, "create_sales_table") = 0
        /\ Count(sinkOps, "insert_sales_data") = 0
        /\ outcome = "PartialFailure"

\* C3 as amended: after connect() failed on every retry the run attempts the
\* CSV backup (when the write succeeds the file holds exactly the transformed
\* records, when it fails no file is left), runs neither the schema nor the
\* insert step, and returns False: the same outcome as a Failure.
C3_FallbackReturnsFalse ==
    /\ (pc = "fallback" => connection_success = "False")
    /\ (connection_success = "False" /\ pc \notin { "fallback" }) =>
          /\ files = IF fault.csv THEN << >>
                     ELSE << [ type |-> "csv", rows |-> processed_data ] >>
          /\ processed_data = TransformData(raw_data, FALSE)
          /\ Count(sinkOps, "create_sales_table") = 0
          /\ Count(sinkOps, "insert_sales_data") = 0
          /\ result = "False"
          /\ (RunEnded => outcome = "Failure")

C3_Witness ==
    /\ RunEnded
    /\ connection_success = "False"
    /\ Len(processed_data) = MaxRecords
    /\ files = << [ type |-> "csv", rows |-> processed_data ] >>
    /\ outcome = "Failure"

\* The run took the fallback branch and the backup file was written.
FallbackSaved == connection_success = "False" /\ ~fault.csv

\* C4 as claimed: the process exits with 0 after Success and after a fallback
\* whose file was saved, and with a non-zero code only after a Failure.
C4_ExitZeroOnFallback ==
    (pc = "exited" /\ RunEnded) =>
        /\ (outcome = "Success" \/ FallbackSaved) => exitCode = 0
        /\ exitCode # 0 => (outcome # "Success" /\ ~FallbackSaved)

\* C4 as amended: the process exits with 0 exactly when run_etl_pipeline
\* returned True, and with 1 in every other case, the fallback branch (store
\* unreachable, data written locally) included.
C4_ExitCodeFollowsReturnValue ==
    (pc = "exited" /\ RunEnded) =>
        /\ exitCode = (IF outcome = "Success" THEN 0 ELSE 1)
        /\ outcome = "Success" <=> (result = "True" /\ ~fault.close)
        /\ connection_success = "False" => exitCode = 1

C4_Witness ==
    /\ pc = "exited"
    /\ RunEnded
    /\ FallbackSaved
    /\ files # << >>
    /\ exitCode = 1

\* The steps after the two validations.
Downstream == { "connect", "sleep", "fallback", "schema", "insert", "save_csv",
                "save_parquet", "report" }

\* C5: when extract_data fails or gives no record, or transform_data gives no
\* record, the run returns False at once: connect, create_sales_table,
\* insert_sales_data, save_to_file and generate_report are not executed.
C5_EarlyFailureSkipsDownstream ==
    /\ pc \in Downstream =>
          /\ extraction_success = "True"
          /\ raw_data # << >>
          /\ db_records # << >>
          /\ processed_data # << >>
    /\ (RunEnded /\ (extraction_success # "True" \/ raw_data = << >>
                       \/ db_records = << >>)) =>
          /\ outcome = "Failure"
          /\ attempts = 0
          /\ sinkOps = << "close" >>
          /\ files = << >>
          /\ report.state = "unset"

C5_Witness ==
    /\ RunEnded
    /\ extraction_success = "True"
    /\ Len(raw_data) = MaxRecords
    /\ db_records = << >>
    /\ outcome = "Failure"
    /\ sinkOps = << "close" >>

\* C6: on every exit path of a run (success, early return, exception of a
\* step) close() is executed exactly once, and it is the last sink operation.
C6_CloseOnceAndLast ==
    /\ RunEnded =>
          /\ Count(sinkOps, "close") = 1
          /\ sinkOps[Len(sinkOps)] = "close"
    /\ ~RunEnded => Count(sinkOps, "close") = 0

C6_Witness ==
    /\ RunEnded
    /\ fault.step
    /\ Count(sinkOps, "insert_sales_data") = 1
    /\ Count(sinkOps, "close") = 1
    /\ sinkOps[Len(sinkOps)] = "close"

\* C7: a failure raised by close() in the cleanup step is swallowed: the run
\* still returns the outcome decided before cleanup.
C7_CloseFailureSwallowed ==
    RunEnded => outcome = OutcomeOf(result)

\* C8: once the insert step has succeeded, a failure of the CSV backup, the
\* Parquet backup or the report does not change the outcome: the try block
\* returns True and the caller sees Success (unless close() itself raises,
\* which is independent of the secondary steps).
C8_SecondaryFailureKeepsSuccess ==
    (RunEnded /\ inserted_count > 0) =>
        /\ result = "True"
        /\ outcome = (IF fault.close THEN "Raised" ELSE "Success")
        /\ committed = db_records

C8_Witness ==
    /\ RunEnded
    /\ inserted_count > 0
    /\ fault.csv /\ fault.parquet /\ fault.report
    /\ outcome = "Success"

\* C9: when the CREATE TABLE statement or the insert fails, the run ends with
\* the outcome Failure and the connection opened by connect() is closed.
\* (Stated for the runs in which close() does not raise.)
C9_SchemaOrInsertFailureFails ==
    (RunEnded /\ ~fault.close /\ (fault.schema \/ fault.insert)) =>
        /\ outcome = "Failure"
        /\ ~connLive

\* C10: create_sales_table returns False when the create-if-absent statement
\* fails and True when it succeeds.
C10_CreateTableReportsFailure ==
    table_success # "unset" =>
        table_success = (IF fault.schema THEN "False" ELSE "True")


\* C11: close() releases the connection only if one is held: a call made when
\* the object never connected, or when its connection is already closed, does
\* nothing, raises nothing and does not call the underlying close() again.
C11_CloseIsIdempotent ==
    (hLast.op = "close" /\ ~hLast.heldLive) =>
        (~hLast.underlying /\ ~hLast.raised)

\* C12 (as stated): a /run-now request received while a pipeline run is in
\* progress starts no second pipeline task.
C12_BusyTriggerStartsNothing ==
    (lastResp.path = "/run-now" /\ lastResp.busy) => ~lastResp.spawned

\* C12 (amended): every /run-now request starts a new background pipeline
\* task at once and is acknowledged as started, also while another run is in
\* progress; none is rejected, ignored or queued.
C12_EveryTriggerStartsTask ==
    lastResp.path = "/run-now" =>
        /\ lastResp.spawned
        /\ lastResp.body.message = "ETL pipeline started in background"

C12_Witness ==
    /\ lastResp.path = "/run-now"
    /\ lastResp.busy
    /\ lastResp.spawned
    /\ manualRunning = 2

\* C13 (as stated): over the timer path and the manual path together at
\* most one pipeline execution is active at any time.
C13_AtMostOneRunActive ==
    timerProcs + manualRunning <= 1

\* C13 (amended): runs started by the timer never overlap one another, the
\* timer thread waiting for each run before it looks at the clock again;
\* manual runs are started without looking at any run state, so they overlap
\* timer runs and one another.
C13_TimerRunsNeverOverlap ==
    /\ timerProcs <= 1
    /\ (timerProcs = 1) <=> (timerPc = "running")

C13_Witness ==
    /\ timerProcs = 1
    /\ manualRunning >= 1

\* C14: the /run-now handler starts the background task and sends its
\* acknowledgement in one go, without waiting for the pipeline: when the
\* acknowledgement is sent the task it started is still counted as running,
\* no time has passed, and the body is the fixed "processing" message that
\* holds no result of the run.
C14_AckWithoutWaiting ==
    [][ (requests' = requests + 1 /\ lastResp'.path = "/run-now") =>
            /\ manualRunning' = manualRunning + 1
            /\ now' = now
            /\ ~lastResp'.blocked
            /\ lastResp'.body.status = "processing"
            /\ DOMAIN lastResp'.body = { "message", "status", "note" } ]_vars

C14_Witness ==
    /\ lastResp.path = "/run-now"
    /\ ~lastResp.busy
    /\ ~lastResp.blocked
    /\ manualRunning = 1
    /\ timerProcs = 0

\* A run started by the timer, or a manual run, ends in this step.
TimerRunEnds == timerProcs' < timerProcs

ManualRunEnds == manualRunning' < manualRunning

\* C15 (as stated): last_run is set when a run completes, for every completed
\* run, and never while a run is still executing.
C15_LastRunFollowsEveryRun ==
    [][ /\ (TimerRunEnds \/ ManualRunEnds) => last_run' = now'
        /\ last_run' # last_run => timerProcs' + manualRunning' = 0 ]_vars

\* C15 (amended): last_run is set exactly when a run started by the timer has
\* returned, whatever its result, and never while that run is executing; the
\* end of a manual run does not set it, and it may be set while a manual run
\* is executing.
C15_LastRunFollowsTimerRuns ==
    [][ /\ TimerRunEnds => last_run' = now'
        /\ last_run' # last_run => (TimerRunEnds /\ timerProcs' = 0)
        /\ ManualRunEnds => last_run' = last_run ]_vars

C15_Witness ==
    /\ timerLast = "error"
    /\ last_run = now
    /\ manualRunning > 0

\* C16 (as stated): /status returns {isRunning, lastRunAt, lastOutcome} and
\* isRunning is true exactly while a pipeline run is executing.
C16_StatusReportsRunState ==
    lastResp.path = "/status" =>
        /\ { "isRunning", "lastRunAt", "lastOutcome" }
               \subseteq DOMAIN lastResp.body
        /\ lastResp.body.isRunning = lastResp.busy

\* C16 (amended): /status returns a fixed body (status "operational",
\* uptime "running", schedule_active true) that has no isRunning, lastRunAt
\* or lastOutcome field and is the same whether or not a run is executing.
C16_StatusIsFixed ==
    lastResp.path = "/status" =>
        /\ lastResp.body.status = "operational"
        /\ lastResp.body.service = "etl-scheduler"
        /\ lastResp.body.uptime = "running"
        /\ lastResp.body.schedule_active = TRUE
        /\ DOMAIN lastResp.body =
               { "status", "service", "uptime", "schedule_active" }

C16_Witness ==
    /\ lastResp.path = "/status"
    /\ lastResp.busy
    /\ timerProcs = 1

\* The clock reading t lies in a firing window.
InWindow(t) == t % (WindowEveryMinutes * 60) < WindowSeconds

ScenarioRows ==
    << [product |-> Laptop, amount |-> 1000, quantity |-> 2],
       [product |-> Mouse,  amount |-> 20,   quantity |-> 5],
       [product |-> Widget, amount |-> 10,   quantity |-> 1] >>

\* The scenario was run to the end on a healthy store: no external call
\* failed and the run returned True.
ScenarioRan ==
    /\ RunEnded
    /\ raw_data = ScenarioRows
    /\ fault = NoFault
    /\ outcome = "Success"

\* What the scenario yields apart from the revenue: the totals, the
\* categories and the number of inserted records.
ScenarioDerived ==
    /\ [ i \in 1..Len(processed_data) |-> processed_data[i].total_sales ]
           = << 2000, 100, 10 >>
    /\ [ i \in 1..Len(processed_data) |-> processed_data[i].category ]
           = << "Computers", "Accessories", "Other" >>
    /\ inserted_count = 3
    /\ report.records_inserted = 3

\* C18 (as stated): for the three scenario rows on a healthy store the totals
\* are [2000, 100, 10], the categories [Computers, Accessories, Other], three
\* records are inserted and the report's total revenue is 1030.
C18_ScenarioRevenue1030 ==
    ScenarioRan => (ScenarioDerived /\ report.total_revenue = 1030)

\* C18 (amended): the same, with the report's total revenue 2110, the sum of
\* the per-record totals.
C18_ScenarioRevenue2110 ==
    ScenarioRan => (ScenarioDerived /\ report.total_revenue = 2110)

C18_Witness ==
    /\ ScenarioRan
    /\ report.state = "full"
    /\ Len(committed) = 3

\* The categories in the order their keyword groups are tested.
CategoryGroups ==
    << [ category |-> "Computers",        words |-> ComputerWords ],
       [ category |-> "Accessories",      words |-> AccessoryWords ],
       [ category |-> "Office Equipment", words |-> OfficeWords ] >>

\* The groups with a keyword inside the lower-cased product name.
MatchingGroups(name) ==
    { g \in 1..Len(CategoryGroups) :
        \E word \in CategoryGroups[g].words : Contains(Lower(name), word) }

\* C19: every product name gets exactly one category of the closed set: that
\* of the first keyword group, in the order Computers, Accessories, Office
\* Equipment, with a keyword inside the lower-cased name, and Other when no
\* group has one.
C19_FirstMatchingGroupWins ==
    cResult # "unset" =>
        /\ cResult \in { "Computers", "Accessories", "Office Equipment", "Other" }
        /\ LET groups == MatchingGroups(cProduct)
           IN  IF groups = { }
               THEN cResult = "Other"
               ELSE \E g \in groups :
                      /\ \A h \in groups : g <= h
                      /\ cResult = CategoryGroups[g].category

\* A name with keywords of two groups, one of them in upper case and the
\* other split over two pieces, got the earlier group.
C19_Witness ==
    /\ cResult = "Computers"
    /\ MatchingGroups(cProduct) = { 1, 2 }
    /\ Len(cProduct) = 11

\* C20: when transform_data succeeds it returns one enriched record for each
\* input record, in input order, each with total_sales = amount * quantity of
\* its input record; the records for the store are the same records.
C20_OneRecordPerRowExactTotal ==
    processed_data # << >> =>
        /\ Len(processed_data) = Len(raw_data)
        /\ Len(db_records) = Len(raw_data)
        /\ \A i \in 1..Len(raw_data) :
             /\ processed_data[i].product = raw_data[i].product
             /\ processed_data[i].amount = raw_data[i].amount
             /\ processed_data[i].quantity = raw_data[i].quantity
             /\ processed_data[i].total_sales
                    = raw_data[i].amount * raw_data[i].quantity
             /\ db_records[i].product = raw_data[i].product
             /\ db_records[i].total_sales
                    = raw_data[i].amount * raw_data[i].quantity

C20_Witness ==
    /\ Len(processed_data) = MaxRecords
    /\ raw_data[1].product = Widget
    /\ raw_data[2].product = Laptop
    /\ processed_data[1].total_sales = 10
    /\ processed_data[2].total_sales = 2000

\* extract_data has been called in this run.
ExtractRan ==
    /\ pc \notin { "start", "extract" }
    /\ result # "unset" \/ pc # "exited"

\* C21: extract_data never raises (it always hands back a success flag); a
\* missing source, an empty source and a
\* source without a required column each give the empty record set with
\* ok = False, and each is logged with a message of its own.
C21_ExtractFailuresDistinct ==
    ExtractRan =>
        /\ extraction_success \in { "True", "False" }
        /\ sourceKind = "missing" =>
              /\ raw_data = << >> /\ extraction_success = "False"
              /\ extract_error = "Input file not found"
        /\ sourceKind = "empty" =>
              /\ raw_data = << >> /\ extraction_success = "False"
              /\ extract_error = "Input file is empty"
        /\ sourceKind = "missing_columns" =>
              /\ raw_data = << >> /\ extraction_success = "False"
              /\ extract_error = "Missing required columns"
        /\ sourceKind = "unreadable" =>
              /\ raw_data = << >> /\ extraction_success = "False"
              /\ extract_error \notin { "Input file not found",
                                        "Input file is empty",
                                        "Missing required columns" }

C21_Witness ==
    /\ RunEnded
    /\ sourceKind = "empty"
    /\ extract_error = "Input file is empty"
    /\ outcome = "Failure"

\* C22: connect, create_sales_table (execute_query) and insert_sales_data
\* never raise to the orchestrator: no exception of a sink operation reaches
\* the except clause of run_etl_pipeline, every store failure comes back as a
\* return value.
C22_SinkOpsNeverRaise ==
    ~fault.step

StatementFailures ==
    (IF fault.schema THEN 1 ELSE 0) + (IF fault.insert THEN 1 ELSE 0)

\* C24: only the connection is retried: create_sales_table and
\* insert_sales_data are each called at most once in a run, each failure of
\* theirs is rolled back, and connect makes between 1 and max_retries
\* attempts.
C24_OnlyConnectRetried ==
    /\ Count(sinkOps, "create_sales_table") <= 1
    /\ Count(sinkOps, "insert_sales_data") <= 1
    /\ Count(sinkOps, "connect") <= 1
    /\ attempts <= max_retries
    /\ Count(sinkOps, "connect") = 1 => attempts >= 1
    /\ rollbacks = StatementFailures

\* The sink operation op has been started in this run.
Started(op) == Count(sinkOps, op) >= 1

\* C25: the steps run in the order Extract, Transform, Connect, EnsureSchema,
\* Insert, SaveBackupFile, Report, Cleanup, none before the one before it has
\* succeeded: Connect only after a non-empty extraction and transformation,
\* EnsureSchema only on a connection, Insert only after the schema statement
\* succeeded in the store, the backup and the report only after the insert.
C25_StepsInOrder ==
    /\ Started("connect") =>
          /\ extraction_success = "True" /\ raw_data # << >>
          /\ db_records # << >> /\ processed_data # << >>
    /\ Started("create_sales_table") =>
          /\ Started("connect") /\ connection_success = "True"
    /\ Started("insert_sales_data") =>
          /\ Started("create_sales_table") /\ ~fault.schema
    /\ pc \in { "save_csv", "save_parquet", "report" } =>
          /\ Started("insert_sales_data") /\ inserted_count > 0
    /\ report.state # "unset" => inserted_count > 0
    /\ Started("close") => sinkOps[Len(sinkOps)] = "close"

\* C26: the connection handle belongs to one run: the run starts with a
\* DatabaseConnection of its own that holds no connection, a live connection
\* of the run is the one its handle refers to, no sink operation follows the
\* close() of the cleanup step, and once close() has returned the handle
\* holds no usable connection.
C26_HandleOwnedByRun ==
    /\ pc \in { "start", "extract", "transform" } =>
          (connection = "None" /\ ~connLive)
    /\ connLive => connection = "conn"
    /\ Started("close") =>
          /\ Count(sinkOps, "close") = 1
          /\ \A i \in 1..Len(sinkOps) : sinkOps[i] = "close" => i = Len(sinkOps)
    /\ (Started("close") /\ ~fault.close) => (~connLive /\ pending = << >>)

C26_Witness ==
    /\ RunEnded
    /\ sinkOps = << "connect", "create_sales_table", "insert_sales_data", "close" >>
    /\ connection = "conn"
    /\ ~connLive
    /\ ~fault.close

\* C27: connect() returns True at its first successful attempt and makes no
\* attempt after it: with the success at attempt k it has made k attempts and
\* k - 1 waits of retry_delay; it returns False only after max_retries failed
\* attempts.
C27_ConnectStopsAtFirstSuccess ==
    /\ connection_success = "True" =>
          /\ attempts \in 1..max_retries
          /\ sleeps = attempts - 1
          /\ waited = (attempts - 1) * retry_delay
          /\ pc \notin { "connect", "sleep", "fallback" }
    /\ connection_success = "False" =>
          /\ attempts = max_retries
          /\ sleeps = max_retries - 1
          /\ connection = "None"

C27_Witness ==
    /\ connection_success = "True"
    /\ attempts = 3
    /\ sleeps = 2
    /\ connLive

\* C28: every run that has started reaches the cleanup step and ends, and it
\* never makes more than max_retries connection attempts or more than
\* max_retries - 1 waits.
C28_RunTerminates ==
    /\ (pc = "extract") ~> (pc = "done" /\ Started("close"))
    /\ [](attempts <= max_retries /\ sleeps <= max_retries - 1)

C28_Witness ==
    /\ pc = "done"
    /\ Started("close")
    /\ attempts = max_retries
    /\ sleeps = max_retries - 1
    /\ connection_success = "False"

\* The number of the five-minute period the clock reading t lies in.
Period(t) == t \div (WindowEveryMinutes * 60)

\* Every run the timer has started took less than five minutes so far.
TimerRunsShort ==
    /\ timerProcs > 0 => now - timerStart < WindowEveryMinutes * 60
    /\ (timerProcs = 0 /\ timerStart # -1) =>
           last_run - timerStart < WindowEveryMinutes * 60

\* C29: as long as every scheduled run takes less than five minutes, the
\* timer starts a run in every firing window: when a window has just passed,
\* a run was started in it.
C29_NoWindowSkipped ==
    (TimerRunsShort /\ now % (WindowEveryMinutes * 60) = WindowSeconds) =>
        (timerStart # -1 /\ Period(timerStart) = Period(now))

\* C30: the timer starts a run only when no run of its own is executing, when
\* more than 240 seconds have passed since its last run ended, and when its
\* previous start lies in another firing window.
C30_NoDoubleFire ==
    [][ timerProcs' > timerProcs =>
            /\ timerProcs = 0
            /\ last_run = -1 \/ now - last_run > SkipTolerance
            /\ timerStart = -1 \/ Period(timerStart) # Period(now) ]_vars

\* The timer has started its second run.
C30_Witness ==
    /\ timerPc = "running"
    /\ last_run # -1
    /\ InWindow(last_run)
    /\ timerStart - last_run > SkipTolerance

\* C31: an exception raised by a step inside the try block makes the run
\* return False, after an error entry in the log and with close() called
\* once; the caller sees Failure, not the exception, unless close() raises.
C31_ExceptionGivesFailure ==
    (RunEnded /\ fault.step) =>
        /\ result = "False"
        /\ errorLogged
        /\ Count(sinkOps, "close") = 1
        /\ ~fault.close => outcome = "Failure"
        /\ report.state = "unset"

C31_Witness ==
    /\ RunEnded
    /\ fault.step
    /\ fault.insert /\ fault.rollback
    /\ ~fault.close
    /\ outcome = "Failure"
    /\ ~connLive

\* C32: scheduled_etl.main returns 0 only when run_etl_pipeline was executed
\* and returned True; when the pipeline did not run (its import failed) or did
\* not succeed, main returns a non-zero code.
C32_ZeroOnlyAfterRealSuccess ==
    (entry = "scheduled_etl" /\ pc = "exited") =>
        (exitCode = 0 <=> (result = "True" /\ outcome = "Success"))

\* A timer-started run begins in this step.
TimerRunStarts == timerProcs' > timerProcs

\* C33 as claimed: a completed manual run counts as the last run, so the
\* timer starts no run within 240 seconds of a manual run's completion.
C33_TimerWaitsAfterManualRun ==
    [][ TimerRunStarts =>
            (manualEnd = -1 \/ now - manualEnd > SkipTolerance) ]_vars

\* C33 as amended: the completion of a manual run leaves last_run and the
\* timer thread untouched, and the timer starts a run whenever its own rule
\* holds for the clock and the end of the last timer-started run, however
\* recently a manual run completed.
C33_TimerIgnoresManualRuns ==
    [][ /\ ManualRunEnds =>
            UNCHANGED << last_run, timerPc, nextCheck, timerProcs >>
        /\ TimerRunStarts <=>
            (timerPc = "poll" /\ nextCheck <= now /\ Due(now, last_run)
             /\ timerPc' = "running") ]_vars

C33_Witness ==
    /\ timerPc = "running"
    /\ timerProcs = 1
    /\ manualEnd # -1
    /\ manualEnd < timerStart
    /\ timerStart - manualEnd <= SkipTolerance
    /\ manualRunning = 0
    /\ last_run = -1

\* The timer's last launch exited non-zero or raised.
TimerRunFailed == timerLast \in { "failed", "error" }

\* C34: a scheduled run that exits non-zero or whose launch raises never ends
\* the timer loop: the loop records the time the run ended as last_run, goes
\* back to checking the clock every second, and starts a run again as soon as
\* its rule holds in a later window.
C34_TimerLoopSurvivesFailures ==
    /\ timerPc \in { "poll", "running" }
    /\ timerPc = "poll" => (now <= nextCheck /\ nextCheck <= now + PollSeconds)
    /\ (timerPc = "poll" /\ TimerRunFailed) =>
           /\ last_run # -1
           /\ last_run - timerStart \in RunDurations
    /\ (timerPc # "running" /\ Due(now, last_run)) => nextCheck <= now

C34_Witness ==
    /\ TimerRunFailed
    /\ timerLast = "error"
    /\ timerPc = "running"
    /\ last_run # -1
    /\ timerStart > last_run
    /\ Period(timerStart) > Period(last_run)

\* The sum of amount * quantity over the rows read from the input file.
RECURSIVE SumAmountTimesQuantity(_)
SumAmountTimesQuantity(rows) ==
    IF rows = << >> THEN 0
    ELSE rows[1].amount * rows[1].quantity + SumAmountTimesQuantity(Tail(rows))

\* run_etl_pipeline returned True to its caller.
ReturnedSuccess == RunEnded /\ outcome = "Success"

\* The counts of a run agree: as many records inserted as transformed and as
\* extracted, at least one, and all of them committed to the table.
CountsAgree ==
    /\ inserted_count = Len(processed_data)
    /\ inserted_count = Len(db_records)
    /\ inserted_count = Len(raw_data)
    /\ inserted_count > 0
    /\ committed = db_records

\* C35 as claimed: whenever the run returns Success the counts agree, the
\* report shows records_inserted = records_processed (the number inserted)
\* and a total_revenue equal to the sum of amount * quantity over all
\* records, and the number inserted is not zero.
C35_SuccessCountsAndRevenue ==
    ReturnedSuccess =>
        /\ CountsAgree
        /\ report.records_inserted = report.records_processed
        /\ report.records_inserted = inserted_count
        /\ report.total_revenue = SumAmountTimesQuantity(raw_data)

\* C35 as amended: whenever the run returns Success the counts agree and the
\* number inserted is not zero; the report shows these figures when
\* generate_report succeeded, and is empty (records and revenue logged as 0)
\* when generate_report failed.
C35_SuccessCountsAndGeneratedReport ==
    ReturnedSuccess =>
        /\ CountsAgree
        /\ report.state = "full" =>
              /\ report.records_inserted = report.records_processed
              /\ report.records_inserted = inserted_count
              /\ report.total_revenue = SumAmountTimesQuantity(raw_data)
        /\ report.state # "full" =>
              /\ fault.report
              /\ report = [ NoReport EXCEPT !.state = "empty" ]

C35_Witness ==
    /\ ReturnedSuccess
    /\ report.state = "full"
    /\ inserted_count = MaxRecords
    /\ report.records_inserted = MaxRecords
    /\ report.total_revenue > 0
    /\ fault.csv

\* C36: after any sequence of connect() and close() calls on one
\* DatabaseConnection at most one connection opened by the object is live,
\* and it is the one the object refers to: no connection of an earlier
\* connect() is left open and unreachable.
C36_AtMostOneLiveConnection ==
    /\ Cardinality(hLive) <= 1
    /\ \A c \in hLive : c = hconn

====
